---- MODULE Spec2Model ----
(***************************************************************************)
(* Diff-Recon, src/src/diffusion_utils.py: the DiffusionScheduler class.   *)
(* __init__ precomputes the linear beta schedule and its derived           *)
(* coefficient vectors; add_noise mixes a clean tensor with fresh noise     *)
(* using the coefficients selected by the timestep tensor t.               *)
(*                                                                         *)
(* Numbers: a tensor element is a rational [n, d] in lowest terms (d > 0), *)
(* or NaN (d = 0).  +, -, * and / are exact; torch.sqrt rounds to the grid *)
(* of 1/SqrtDen.  A 1-D tensor is a function on 0..len-1, so indices are   *)
(* the code's indices.  An N-D tensor is [shape, data] with data in        *)
(* row-major order, as a contiguous torch tensor stores it.                *)
(***************************************************************************)
EXTENDS Integers, Sequences, FiniteSets, TLC

VARIABLES
    scheduler,                      \* "unbound" | "bound": the caller's name `scheduler`
    timesteps,                      \* self.timesteps
    betas,                          \* self.betas
    alphas,                         \* self.alphas
    alphas_cumprod,                 \* self.alphas_cumprod
    sqrt_alphas_cumprod,            \* self.sqrt_alphas_cumprod
    sqrt_one_minus_alphas_cumprod,  \* self.sqrt_one_minus_alphas_cumprod
    x_0,                            \* the caller's clean tensor
    rng,                            \* state of torch's process-wide default generator
    call,                           \* the most recent call and its arguments
    raised,                         \* "none", or the exception that call raised
    x_noisy,                        \* first component of add_noise's return value
    noise                           \* second component of add_noise's return value

vars == <<scheduler, timesteps, betas, alphas, alphas_cumprod, sqrt_alphas_cumprod,
          sqrt_one_minus_alphas_cumprod, x_0, rng, call, raised, x_noisy, noise>>

schedule == <<timesteps, betas, alphas, alphas_cumprod, sqrt_alphas_cumprod,
              sqrt_one_minus_alphas_cumprod>>

-----------------------------------------------------------------------------
(* Bounds of the model. *)

MaxTimesteps == 4

\* The schedule size the forward process is exercised with (besides 0 and 1).
ForwardTimesteps == 3

\* torch.sqrt rounds to multiples of 1/SqrtDen.
SqrtDen == 100

\* The default generator's stream repeats after RngPeriod draws.
RngPeriod == 3

-----------------------------------------------------------------------------
(* Tensor element arithmetic. *)

Abs(k) == IF k < 0 THEN -k ELSE k

RECURSIVE GCD(_, _)
GCD(a, b) == IF b = 0 THEN a ELSE GCD(b, a % b)

NaN == [n |-> 0, d |-> 0]

IsNaN(a) == a.d = 0

Rat(n, d) ==
    IF d = 0 THEN NaN
    ELSE LET g == GCD(Abs(n), Abs(d))
             s == IF d < 0 THEN -1 ELSE 1
         IN  [n |-> (s * n) \div g, d |-> (s * d) \div g]

Scalar(k) == [n |-> k, d |-> 1]

RAdd(a, b) == IF IsNaN(a) \/ IsNaN(b) THEN NaN ELSE Rat(a.n * b.d + b.n * a.d, a.d * b.d)

RSub(a, b) == IF IsNaN(a) \/ IsNaN(b) THEN NaN ELSE Rat(a.n * b.d - b.n * a.d, a.d * b.d)

RMul(a, b) == IF IsNaN(a) \/ IsNaN(b) THEN NaN ELSE Rat(a.n * b.n, a.d * b.d)

RDiv(a, b) == IF IsNaN(a) \/ IsNaN(b) THEN NaN ELSE Rat(a.n * b.d, a.d * b.n)

\* IEEE comparisons: every comparison with NaN is false.
RLe(a, b) == ~IsNaN(a) /\ ~IsNaN(b) /\ a.n * b.d <= b.n * a.d

RLt(a, b) == ~IsNaN(a) /\ ~IsNaN(b) /\ a.n * b.d < b.n * a.d

\* Largest r in lo..hi with r * r <= k (lo * lo <= k assumed).
RECURSIVE ISqrtIn(_, _, _)
ISqrtIn(k, lo, hi) ==
    IF lo >= hi THEN lo
    ELSE LET mid == (lo + hi + 1) \div 2
         IN  IF mid * mid <= k THEN ISqrtIn(k, mid, hi) ELSE ISqrtIn(k, lo, mid - 1)

\* torch.sqrt: NaN for a negative argument, otherwise the root rounded down
\* to the grid of 1/SqrtDen (the argument is first rounded down to that grid).
sqrt(a) ==
    IF IsNaN(a) \/ a.n < 0 THEN NaN
    ELSE LET q == (a.n * SqrtDen) \div a.d
         IN  Rat(ISqrtIn(q * SqrtDen, 0, q + SqrtDen), SqrtDen)

-----------------------------------------------------------------------------
(* torch.linspace and torch.cumprod on 1-D tensors. *)

\* A slip in linspace: the second half steps away from `end` instead of back
\* towards `start`.
linspace_drift(start, end, steps) ==
    IF steps = 1 THEN [i \in 0..0 |-> start]
    ELSE LET step    == RDiv(RSub(end, start), Scalar(steps - 1))
             halfway == steps \div 2
         IN  [i \in 0..(steps - 1) |->
                 IF i < halfway
                 THEN RAdd(start, RMul(step, Scalar(i)))
                 ELSE RAdd(end, RMul(step, Scalar(steps - i - 1)))]

\* torch.linspace(start, end, steps) for steps >= 0: one element is `start`;
\* otherwise the first half counts up from start and the second half counts
\* down from end, so both endpoints are hit exactly.
linspace(start, end, steps) ==
    IF steps = 1 THEN [i \in 0..0 |-> start]
    ELSE LET step    == RDiv(RSub(end, start), Scalar(steps - 1))
             halfway == steps \div 2
         IN  [i \in 0..(steps - 1) |->
                 IF i < halfway
                 THEN RAdd(start, RMul(step, Scalar(i)))
                 ELSE RSub(end, RMul(step, Scalar(steps - i - 1)))]

\* The running product a[0] * a[1] * ... * a[i], taken in increasing index order.
RECURSIVE RunningProduct(_, _)
RunningProduct(a, i) ==
    IF i = 0 THEN a[0] ELSE RMul(RunningProduct(a, i - 1), a[i])

\* A slip in cumprod: the product restarts at every index.
cumprod_restart(a) == [i \in DOMAIN a |-> a[i]]

cumprod(a) == [i \in DOMAIN a |-> RunningProduct(a, i)]

OneMinus(a) == [i \in DOMAIN a |-> RSub(Scalar(1), a[i])]

SqrtAll(a) == [i \in DOMAIN a |-> sqrt(a[i])]

-----------------------------------------------------------------------------
(* Inputs. *)

Empty == [i \in {} |-> NaN]

NoTensor == [shape |-> <<>>, data |-> Empty]

NoCall == [op |-> "none", timesteps |-> 0, beta_start |-> NaN, beta_end |-> NaN, t |-> Empty]

InitCall(T, bs, be) ==
    [op |-> "__init__", timesteps |-> T, beta_start |-> bs, beta_end |-> be, t |-> Empty]

\* beta_start and beta_end: inside (0,1), on its boundary and outside it.
BetaValues == {Rat(0, 1), Rat(1, 4), Rat(3, 4), Rat(1, 1), Rat(5, 4)}

TimestepValues == (-1)..MaxTimesteps

-----------------------------------------------------------------------------
(* DiffusionScheduler.__init__ *)

\* scheduler = DiffusionScheduler(T, bs, be).  torch.linspace raises for a
\* negative number of steps, and then the caller's name is not rebound.
DiffusionScheduler(T, bs, be) ==
    /\ scheduler = "unbound"
    /\ raised = "none"
    /\ call' = InitCall(T, bs, be)
    /\ IF T < 0
       THEN /\ raised' = "RuntimeError"
            /\ UNCHANGED <<scheduler, schedule>>
       ELSE LET b  == linspace(bs, be, T)
                a  == OneMinus(b)
                ac == cumprod(a)
            IN  /\ raised' = "none"
                /\ scheduler' = "bound"
                /\ timesteps' = T
                /\ betas' = b
                /\ alphas' = a
                /\ alphas_cumprod' = ac
                /\ sqrt_alphas_cumprod' = SqrtAll(ac)
                /\ sqrt_one_minus_alphas_cumprod' = SqrtAll(OneMinus(ac))
    /\ x_noisy' = NoTensor
    /\ noise' = NoTensor
    /\ UNCHANGED <<x_0, rng>>

-----------------------------------------------------------------------------
(* N-D tensors and broadcasting. *)

Max(a, b) == IF a >= b THEN a ELSE b

RECURSIVE Product(_, _)
Product(shape, i) == IF i > Len(shape) THEN 1 ELSE shape[i] * Product(shape, i + 1)

Numel(shape) == Product(shape, 1)

\* The shape aligned to the right in n dimensions (leading dimensions are 1).
Pad(shape, n) ==
    [i \in 1..n |-> IF i <= n - Len(shape) THEN 1 ELSE shape[i - (n - Len(shape))]]

Broadcastable(A, B) ==
    LET n == Max(Len(A), Len(B))
        a == Pad(A, n)
        b == Pad(B, n)
    IN  \A i \in 1..n : a[i] = b[i] \/ a[i] = 1 \/ b[i] = 1

BroadcastShape(A, B) ==
    LET n == Max(Len(A), Len(B))
        a == Pad(A, n)
        b == Pad(B, n)
    IN  [i \in 1..n |-> IF a[i] = 1 THEN b[i] ELSE a[i]]

\* The multi-index (0-based entries) of flat position f in a tensor of `shape`.
Unravel(f, shape) ==
    [i \in 1..Len(shape) |-> (f \div Product(shape, i + 1)) % shape[i]]

\* The flat position that multi-index idx of the broadcast result reads in a
\* tensor of (padded) shape p: a dimension of size 1 is read at 0.
RECURSIVE OffsetFrom(_, _, _, _)
OffsetFrom(idx, p, i, acc) ==
    IF i > Len(p) THEN acc
    ELSE OffsetFrom(idx, p, i + 1, acc * p[i] + (IF p[i] = 1 THEN 0 ELSE idx[i]))

At(A, idx) == A.data[OffsetFrom(idx, Pad(A.shape, Len(idx)), 1, 0)]

\* A * B and A + B with broadcasting (the shapes are broadcastable).
Mul(A, B) ==
    LET R == BroadcastShape(A.shape, B.shape)
    IN  [shape |-> R,
         data  |-> [f \in 0..(Numel(R) - 1) |->
                       LET idx == Unravel(f, R)
                       IN  RMul(At(A, idx), At(B, idx))]]

Add(A, B) ==
    LET R == BroadcastShape(A.shape, B.shape)
    IN  [shape |-> R,
         data  |-> [f \in 0..(Numel(R) - 1) |->
                       LET idx == Unravel(f, R)
                       IN  RAdd(At(A, idx), At(B, idx))]]

-----------------------------------------------------------------------------
(* The default random generator. *)

\* The k-th value of the default generator's stream.
Stream(k) == Scalar((k % RngPeriod) - 1)

\* torch.randn_like(x): one draw per element of x, in storage order.
randn_like(x) ==
    [shape |-> x.shape, data |-> [p \in 0..(Numel(x.shape) - 1) |-> Stream(rng + p)]]

-----------------------------------------------------------------------------
(* DiffusionScheduler.add_noise *)

AddNoiseCall(t) ==
    [op |-> "add_noise", timesteps |-> 0, beta_start |-> NaN, beta_end |-> NaN, t |-> t]

\* Indexing a 1-D tensor of size `timesteps` with the index tensor t.
IndexInBounds(t) == \A j \in DOMAIN t : -timesteps <= t[j] /\ t[j] < timesteps

\* v[t].view(-1, 1, 1): a negative index counts from the end.
Gather(v, t) ==
    [shape |-> <<Len(t), 1, 1>>,
     data  |-> [j \in 0..(Len(t) - 1) |->
                   v[IF t[j + 1] < 0 THEN t[j + 1] + timesteps ELSE t[j + 1]]]]

\* What add_noise(x_0, t) returns, or the exception it raises: the index
\* lookup fails first, then the broadcast of (len(t), 1, 1) against x_0.
Forward(t) ==
    LET eps == randn_like(x_0)
        c1  == Gather(sqrt_alphas_cumprod, t)
        c2  == Gather(sqrt_one_minus_alphas_cumprod, t)
    IN  IF ~IndexInBounds(t)
        THEN [raised |-> "IndexError", x_noisy |-> NoTensor, noise |-> NoTensor]
        ELSE IF ~Broadcastable(c1.shape, x_0.shape)
        THEN [raised |-> "RuntimeError", x_noisy |-> NoTensor, noise |-> NoTensor]
        ELSE [raised |-> "none", x_noisy |-> Add(Mul(c1, x_0), Mul(c2, eps)), noise |-> eps]

\* A slip in add_noise: the mix is computed in place, in x_start's storage.
add_noise_in_place(t) ==
    /\ scheduler = "bound"
    /\ x_0 # NoTensor
    /\ call' = AddNoiseCall(t)
    /\ rng' = (rng + Numel(x_0.shape)) % RngPeriod
    /\ LET r == Forward(t)
       IN  /\ raised' = r.raised
           /\ x_noisy' = r.x_noisy
           /\ noise' = r.noise
           /\ x_0' = IF r.raised = "none" THEN r.x_noisy ELSE x_0
    /\ UNCHANGED <<scheduler, schedule>>

\* x_noisy, noise = scheduler.add_noise(x_0, t), t a sequence of indices.
\* randn_like draws from the default generator before anything can fail.
add_noise(t) ==
    /\ scheduler = "bound"
    /\ x_0 # NoTensor
    /\ call' = AddNoiseCall(t)
    /\ rng' = (rng + Numel(x_0.shape)) % RngPeriod
    /\ LET r == Forward(t)
       IN  /\ raised' = r.raised
           /\ x_noisy' = r.x_noisy
           /\ noise' = r.noise
    /\ UNCHANGED <<scheduler, schedule, x_0>>

-----------------------------------------------------------------------------
(* The caller: test_forward.py loads one clean tensor, builds one scheduler *)
(* and calls add_noise repeatedly.                                          *)

\* Shapes (B, d1, ..., dk) of the clean tensor.
Shapes ==
    { <<1, 1, 2>>, <<2, 1, 2>>, <<3, 1, 1>>,
      <<1, 2>>, <<2, 2>>,
      <<2, 2, 1, 1>>, <<2, 1, 1, 2>>, <<2, 3, 1, 1>> }

\* A clean tensor normalised by its maximum, so its values lie in [0, 1].
Image(shape) ==
    [shape |-> shape, data |-> [p \in 0..(Numel(shape) - 1) |-> Rat((p + 1) % 3, 2)]]

LoadImage(shape) ==
    /\ x_0 = NoTensor
    /\ raised = "none"
    /\ x_0' = Image(shape)
    /\ UNCHANGED <<scheduler, schedule, rng, call, raised, x_noisy, noise>>

\* Index values at and around the ends of the valid range 0..timesteps-1.
IndexValues == {-1, 0, timesteps - 1, timesteps}

\* The ends of the valid range.
EndValues == {0, timesteps - 1}

\* The t of a call: one or two indices of any kind, or three at the ends of
\* the valid range.
TimestepTensors ==
    [1..1 -> IndexValues] \cup [1..2 -> IndexValues] \cup [1..3 -> EndValues]

ForwardConfigs == {-1, 0, 1, ForwardTimesteps}

-----------------------------------------------------------------------------

Init ==
    /\ scheduler = "unbound"
    /\ timesteps = 0
    /\ betas = Empty
    /\ alphas = Empty
    /\ alphas_cumprod = Empty
    /\ sqrt_alphas_cumprod = Empty
    /\ sqrt_one_minus_alphas_cumprod = Empty
    /\ x_0 = NoTensor
    /\ rng \in 0..(RngPeriod - 1)
    /\ call = NoCall
    /\ raised = "none"
    /\ x_noisy = NoTensor
    /\ noise = NoTensor

Build ==
    \E T \in TimestepValues, bs \in BetaValues, be \in BetaValues :
        DiffusionScheduler(T, bs, be)

SpecBuild == Init /\ [][Build]_vars

Load == \E shape \in Shapes : LoadImage(shape)

Construct == \E T \in ForwardConfigs : DiffusionScheduler(T, Rat(1, 4), Rat(3, 4))

Noise == \E t \in TimestepTensors : add_noise(t)

Next == Load \/ Construct \/ Noise

Spec == Init /\ [][Next]_vars

-----------------------------------------------------------------------------
(* Properties of the schedule builder, checked under SpecBuild. *)

Built == scheduler = "bound" /\ call.op = "__init__"

InOpenUnitInterval(a) == RLt(Scalar(0), a) /\ RLt(a, Scalar(1))

Rejected == raised # "none" /\ scheduler = "unbound"

\* C3 (as claimed): the builder fails, and binds no schedule, exactly when
\* timestep_count < 1 or beta_start or beta_end is not strictly between 0 and 1.
C3_RejectsInvalidConfiguration ==
    call.op = "__init__" =>
        IF \/ call.timesteps < 1
           \/ ~InOpenUnitInterval(call.beta_start)
           \/ ~InOpenUnitInterval(call.beta_end)
        THEN Rejected
        ELSE raised = "none" /\ scheduler = "bound"

\* C6 (as claimed): in every schedule the builder returns, betas is
\* non-decreasing in the index (stated for beta_start and beta_end strictly
\* between 0 and 1, in either order).
C6_BetasNonDecreasing ==
    (Built /\ InOpenUnitInterval(call.beta_start) /\ InOpenUnitInterval(call.beta_end)) =>
        \A i \in 1..(timesteps - 1) : RLe(betas[i - 1], betas[i])

\* C6 (amended): betas is monotone in the direction of its endpoints,
\* non-decreasing when beta_start <= beta_end and non-increasing when
\* beta_start >= beta_end.
C6_BetasMonotone ==
    Built =>
        /\ RLe(call.beta_start, call.beta_end) =>
               \A i \in 1..(timesteps - 1) : RLe(betas[i - 1], betas[i])
        /\ RLe(call.beta_end, call.beta_start) =>
               \A i \in 1..(timesteps - 1) : RLe(betas[i], betas[i - 1])

\* A schedule of at least three rows built with 1 > beta_start > beta_end > 0,
\* whose betas strictly decrease.
C6_Witness ==
    /\ Built
    /\ timesteps >= 3
    /\ InOpenUnitInterval(call.beta_start)
    /\ InOpenUnitInterval(call.beta_end)
    /\ RLt(call.beta_end, call.beta_start)
    /\ \A i \in 1..(timesteps - 1) : RLt(betas[i], betas[i - 1])

\* C7 (as claimed): in every schedule the builder returns, every
\* alphas_cumprod[i] lies in (0, 1] and alphas_cumprod is non-increasing.
C7_AlphasCumprodBounded ==
    scheduler = "bound" =>
        \A i \in 0..(timesteps - 1) :
            /\ RLt(Scalar(0), alphas_cumprod[i])
            /\ RLe(alphas_cumprod[i], Scalar(1))
            /\ i > 0 => RLe(alphas_cumprod[i], alphas_cumprod[i - 1])

\* C10: the built schedule is the reference schedule: T rows,
\* betas[i] = beta_start + i * (beta_end - beta_start) / (T - 1) for T >= 2 and
\* betas = [beta_start] for T = 1, alphas[i] = 1 - betas[i],
\* alphas_cumprod[0] = alphas[0] and
\* alphas_cumprod[i] = alphas_cumprod[i-1] * alphas[i] for i > 0.
C10_ReferenceSchedule ==
    Built =>
        LET T  == call.timesteps
            bs == call.beta_start
            be == call.beta_end
        IN  /\ timesteps = T
            /\ DOMAIN betas = 0..(T - 1)
            /\ DOMAIN alphas = 0..(T - 1)
            /\ DOMAIN alphas_cumprod = 0..(T - 1)
            /\ T = 1 => betas[0] = bs
            /\ T >= 2 =>
                   \A i \in 0..(T - 1) :
                       betas[i] = Rat(bs.n * be.d * (T - 1) + i * (be.n * bs.d - bs.n * be.d),
                                      bs.d * be.d * (T - 1))
            /\ \A i \in 0..(T - 1) : alphas[i] = Rat(betas[i].d - betas[i].n, betas[i].d)
            /\ T >= 1 => alphas_cumprod[0] = alphas[0]
            /\ \A i \in 1..(T - 1) :
                   alphas_cumprod[i] = RMul(alphas_cumprod[i - 1], alphas[i])

\* A schedule of at least four rows with distinct endpoints inside (0,1), whose
\* first and last betas are the endpoints.
C10_Witness ==
    /\ Built
    /\ timesteps >= 4
    /\ InOpenUnitInterval(call.beta_start)
    /\ InOpenUnitInterval(call.beta_end)
    /\ call.beta_start # call.beta_end
    /\ betas[0] = call.beta_start
    /\ betas[timesteps - 1] = call.beta_end
    /\ alphas_cumprod[timesteps - 1] # alphas[timesteps - 1]

-----------------------------------------------------------------------------
(* Properties of the forward noiser, checked under Spec. *)

Called == call.op = "add_noise"

BatchSize == x_0.shape[1]

\* The call's t has one index per batch element, each in 0..timesteps-1.
WellFormedCall ==
    /\ Called
    /\ Len(call.t) = BatchSize
    /\ \A j \in DOMAIN call.t : 0 <= call.t[j] /\ call.t[j] < timesteps

\* C1 (as claimed): a call with some t[j] outside 0..T-1 fails with an index
\* error and returns nothing.
C1_OutOfRangeIndexFails ==
    (Called /\ \E j \in DOMAIN call.t : call.t[j] < 0 \/ call.t[j] >= timesteps) =>
        raised = "IndexError" /\ x_noisy = NoTensor /\ noise = NoTensor

\* C2 (as claimed): a call whose t has a length other than the batch size
\* fails and returns nothing (stated for t with every index in range).
C2_LengthMismatchFails ==
    (/\ Called
     /\ Len(call.t) # BatchSize
     /\ \A j \in DOMAIN call.t : 0 <= call.t[j] /\ call.t[j] < timesteps) =>
        raised # "none" /\ x_noisy = NoTensor /\ noise = NoTensor

\* C4 (as claimed): in a successful call every element of batch element b is
\* sqrt_alphas_cumprod[t[b]] * x_0 + sqrt_one_minus_alphas_cumprod[t[b]] * noise
\* (stated for results that have the shape of x_0).
C4_CoefficientsByBatchIndex ==
    (WellFormedCall /\ raised = "none" /\ x_noisy.shape = x_0.shape) =>
        \A f \in 0..(Numel(x_0.shape) - 1) :
            LET b == Unravel(f, x_0.shape)[1]
                k == call.t[b + 1]
            IN  x_noisy.data[f] =
                    RAdd(RMul(sqrt_alphas_cumprod[k], x_0.data[f]),
                         RMul(sqrt_one_minus_alphas_cumprod[k], noise.data[f]))

\* C5 (as claimed): a call that returns, given one valid index per batch
\* element, returns x_noisy and noise of exactly the shape of x_0.
C5_ShapePreserved ==
    (WellFormedCall /\ raised = "none") =>
        x_noisy.shape = x_0.shape /\ noise.shape = x_0.shape

\* C8 (as claimed): add_noise does not advance the process-wide generator,
\* and a call repeated with the same schedule, x_0 and t returns the same
\* x_noisy and noise.
C8_NoProcessWideRandomState ==
    [][call'.op = "add_noise" =>
          /\ rng' = rng
          /\ (Called /\ call'.t = call.t /\ schedule' = schedule /\ x_0' = x_0) =>
                 (x_noisy' = x_noisy /\ noise' = noise)]_vars

\* C9: a call of add_noise, successful or failing, leaves the schedule and
\* x_0 as they were.
C9_AddNoiseFrame ==
    [][call'.op = "add_noise" =>
          (schedule' = schedule /\ scheduler' = scheduler /\ x_0' = x_0)]_vars

\* A successful call on a schedule of several rows that returned a tensor of
\* x_0's shape with other values.
C9_Witness ==
    /\ Called
    /\ raised = "none"
    /\ timesteps >= 2
    /\ x_noisy.shape = x_0.shape
    /\ x_noisy.data # x_0.data

====
